---- MODULE Spec2Model ----
(***************************************************************************)
(* Model of tools/sound_preview/main.go: the tone renderer (synthesize),   *)
(* the RIFF/WAVE encoder (writeWAV) and the external-player dispatcher     *)
(* (runFirstAvailable, playWAV, playMP3, playAudioFile, playSamples).      *)
(*                                                                         *)
(* Three specifications share the module's variables:                      *)
(*   Spec       the playback dispatcher, one play call per behaviour, on a *)
(*              host whose installed programs and their exit behaviour are *)
(*              drawn in Init;                                             *)
(*   SpecSynth  synthesize applied to bounded note lists;                  *)
(*   SpecWav    writeWAV's encoding applied to bounded sample buffers.     *)
(***************************************************************************)
EXTENDS Integers, Sequences, FiniteSets, TLC

VARIABLES
    \* ---- dispatcher ----
    pc,          \* position of the play call
    goos,        \* runtime.GOOS of the host
    host,        \* program name -> "absent" | "fails" | "ok"
    entry,       \* "none" | "playAudioFile" | "playSamples"
    path,        \* the path handed to the dispatcher (sequence of characters)
    caller,      \* "none" | "playWAV" | "playMP3": who called runFirstAvailable
    candidates,  \* runFirstAvailable's argument (program names, in order)
    i,           \* index of the range loop over candidates
    available,   \* runFirstAvailable's local `available`
    lastErr,     \* runFirstAvailable's local `lastErr`
    chainErr,    \* the error runFirstAvailable returned
    result,      \* the error the play call returned to its caller
    events,      \* every external effect so far, in order: <<what, program, outcome>>
    tmpFile,     \* "absent" | "partial" | "present": the temporary WAV on disk
    deferred,    \* playSamples has registered its deferred os.Remove
    removeFailed,\* the deferred os.Remove returned an error
    \* ---- renderer ----
    synthPc,     \* "off" | "input" | "done"
    notes,       \* synthesize's argument
    frameCount,  \* synthesize's local `frameCount`
    iters,       \* per note, the iterations its mixing loop ran
    guardFired,  \* some mixing loop hit `idx < 0 || idx >= frameCount`
    buf,         \* synthesize's local `buf` after mixing (fixed point)
    mixPeak,     \* synthesize's local `peak`
    out,         \* the quantized buffer synthesize returned
    synthErr,    \* the error synthesize returned
    \* ---- encoder ----
    wavPc,       \* "off" | "input" | "done"
    samples,     \* writeWAV's argument
    wavBytes,    \* the bytes writeWAV handed to os.WriteFile
    wavErr       \* the error writeWAV returned

dispVars  == <<pc, goos, host, entry, path, caller, candidates, i, available,
               lastErr, chainErr, result, events, tmpFile, deferred, removeFailed>>
synthVars == <<synthPc, notes, frameCount, iters, guardFired, buf, mixPeak, out, synthErr>>
wavVars   == <<wavPc, samples, wavBytes, wavErr>>
vars      == <<dispVars, synthVars, wavVars>>

(***************************************************************************)
(* Errors.  Go's error values are modelled as records: `kind` names the    *)
(* error (the spec's error kinds), `msg` is the message as a sequence of   *)
(* string pieces, `cause` holds the wrapped error (%w), if any.            *)
(***************************************************************************)
Nil == [kind |-> "nil", msg |-> <<>>, cause |-> <<>>]

ExitError(prog) == [kind |-> "ExitError", msg |-> <<prog>>, cause |-> <<>>]

LaunchError(prog) == [kind |-> "LaunchError", msg |-> <<prog>>, cause |-> <<>>]

IOError(what) == [kind |-> "EncodingIO", msg |-> <<what>>, cause |-> <<>>]

\* strings.Join(elems, sep): the elements with sep between neighbours.
RECURSIVE Join(_, _)
Join(elems, sep) ==
    IF Len(elems) = 0 THEN <<>>
    ELSE IF Len(elems) = 1 THEN <<elems[1]>>
    ELSE <<elems[1], sep>> \o Join(Tail(elems), sep)

(***************************************************************************)
(* The host.                                                               *)
(***************************************************************************)
WavePlayers == <<"aplay", "paplay", "ffplay", "afplay">>

Mp3Players == <<"ffplay", "afplay", "mpg123", "mpg321", "play">>

Range(s) == {s[k] : k \in 1..Len(s)}

Programs == Range(WavePlayers) \cup Range(Mp3Players)

GOOSValues == {"linux", "windows"}

\* exec.LookPath(name) succeeded.
commandExists(name) == host[name] # "absent"

\* exec.Command(name, args...).Run(): nil on a zero exit status; starting a
\* program that is not on the host fails to launch.
RunProgram(name) ==
    IF host[name] = "ok" THEN Nil
    ELSE IF host[name] = "fails" THEN ExitError(name)
    ELSE LaunchError(name)

(***************************************************************************)
(* Paths: sequences of one-character strings.                              *)
(***************************************************************************)
UpperCase == <<"A", "E", "G", "M", "P", "V", "W">>

LowerCase == <<"a", "e", "g", "m", "p", "v", "w">>

\* unicode.ToLower on one character of the modelled alphabet.
LowerChar(c) ==
    IF \E k \in 1..Len(UpperCase) : UpperCase[k] = c
    THEN LowerCase[CHOOSE k \in 1..Len(UpperCase) : UpperCase[k] = c]
    ELSE c

\* strings.ToLower
ToLower(s) == IF Len(s) = 0 THEN <<>> ELSE [k \in 1..Len(s) |-> LowerChar(s[k])]

\* os.IsPathSeparator
IsPathSeparator(c, os) == c = "/" \/ (os = "windows" /\ c = "\\")

\* filepath.Ext: scan back from the end to the first separator; the suffix
\* from the last dot of the final element, or "".
RECURSIVE ExtFrom(_, _, _)
ExtFrom(p, k, os) ==
    IF k < 1 THEN <<>>
    ELSE IF IsPathSeparator(p[k], os) THEN <<>>
    ELSE IF p[k] = "." THEN SubSeq(p, k, Len(p))
    ELSE ExtFrom(p, k - 1, os)

Ext(p, os) == ExtFrom(p, Len(p), os)

WavExts == {<<".", "w", "a", "v">>, <<".", "w", "a", "v", "e">>}

Mp3Exts == {<<".", "m", "p", "3">>, <<".", "m", "p", "e", "g">>}

\* The paths playAudioFile is called with.
Paths ==
    { <<"a", ".", "w", "a", "v">>,
      <<"a", ".", "W", "A", "V">>,
      <<"a", ".", "W", "a", "v", "e">>,
      <<"a", ".", "m", "p", "3">>,
      <<"a", ".", "M", "P", "3">>,
      <<"a", ".", "m", "p", "E", "G">>,
      <<"a", ".", "o", "g", "g">>,
      <<"a", ".", "w", "a", "v", ".", "o", "g", "g">>,
      <<"a", ".", "o", "g", "g", ".", "m", "p", "3">>,
      <<"w", "a", "v">>,
      <<"d", ".", "w", "a", "v", "/", "a">>,
      <<"d", ".", "m", "p", "3", "\\", "a">>,
      <<"a", ".">>,
      <<>> }

\* filepath.Join(os.TempDir(), "ei-sound-<nanos>.wav")
TmpPath == <<"t", "/", "e", "i", ".", "w", "a", "v">>

(***************************************************************************)
(* The dispatcher: playAudioFile, playSamples, runFirstAvailable, playWAV, *)
(* playMP3.                                                                *)
(***************************************************************************)
\* playAudioFile's switch on strings.ToLower(filepath.Ext(path)),
\* without the lower-casing.
ClassifyCaseSensitive(p, os) ==
    IF Ext(p, os) \in WavExts THEN "wav"
    ELSE IF Ext(p, os) \in Mp3Exts THEN "mp3"
    ELSE "unsupported"

\* playAudioFile's switch on strings.ToLower(filepath.Ext(path)).
Classify(p, os) ==
    LET ext == ToLower(Ext(p, os)) IN
    IF ext \in WavExts THEN "wav"
    ELSE IF ext \in Mp3Exts THEN "mp3"
    ELSE "unsupported"

\* fmt.Errorf("unsupported audio file extension %q for %s", ext, path)
UnsupportedError(p, os) ==
    [kind |-> "UnsupportedFormat",
     msg |-> <<"unsupported audio file extension ">> \o ToLower(Ext(p, os))
             \o <<" for ">> \o p,
     cause |-> <<>>]

\* The not-found error built from the programs that were attempted (none).
NotFoundFromAvailable(cands, avail) ==
    [kind |-> "PlayerNotFound",
     msg |-> <<"no supported audio player found (install one of: ">>
             \o Join(avail, ", ") \o <<")">>,
     cause |-> <<>>]

\* fmt.Errorf("no supported audio player found (install one of: %s)",
\*            strings.Join(names, ", ")), names being every candidate's name.
NotFoundError(cands, avail) ==
    [kind |-> "PlayerNotFound",
     msg |-> <<"no supported audio player found (install one of: ">>
             \o Join(cands, ", ") \o <<")">>,
     cause |-> <<>>]

\* fmt.Errorf("audio playback failed via %s: %w",
\*            strings.Join(available, ", "), lastErr)
PlaybackFailedError(avail, err) ==
    [kind |-> "PlaybackFailed",
     msg |-> <<"audio playback failed via ">> \o Join(avail, ", ") \o <<": ">>,
     cause |-> <<err>>]

\* lastErr keeps the first failure instead of the latest.
KeepFirstErr(prev, err) == IF prev = Nil THEN err ELSE prev

\* `lastErr = err` in the loop of runFirstAvailable.
NextLastErr(prev, err) == err

\* playWAV's fallback condition without the GOOS test.
UseFallbackAnyHost(err, os) == err # Nil

\* playWAV: the chain failed and runtime.GOOS == "windows".
UseFallback(err, os) == err # Nil /\ os = "windows"

\* Entering runFirstAvailable(cands) from `who`.
StartChain(cands, who) ==
    /\ caller' = who
    /\ candidates' = cands
    /\ i' = 1
    /\ available' = <<>>
    /\ lastErr' = Nil
    /\ pc' = "chain"

\* The play call returns err; playSamples' deferred os.Remove runs next.
Return(err) ==
    /\ result' = err
    /\ pc' = IF deferred THEN "deferred" ELSE "returned"

playAudioFile ==
    /\ pc = "idle"
    /\ \E p \in Paths :
        /\ entry' = "playAudioFile"
        /\ path' = p
        /\ IF Classify(p, goos) = "wav"
           THEN StartChain(WavePlayers, "playWAV") /\ UNCHANGED result
           ELSE IF Classify(p, goos) = "mp3"
           THEN StartChain(Mp3Players, "playMP3") /\ UNCHANGED result
           ELSE /\ result' = UnsupportedError(p, goos)
                /\ pc' = "returned"
                /\ UNCHANGED <<caller, candidates, i, available, lastErr>>
    /\ UNCHANGED <<goos, host, chainErr, events, tmpFile, deferred, removeFailed>>
    /\ UNCHANGED <<synthVars, wavVars>>

\* os.WriteFile: the open may fail (no file), the write may fail after the
\* file was created and truncated (a partial file stays), or both succeed.
WriteOutcomes == {"ok", "openFailed", "writeFailed"}

\* playSamples up to its call of playWAV: writeWAV, early return on its
\* error, otherwise the deferred os.Remove is registered.
playSamples ==
    /\ pc = "idle"
    /\ \E o \in WriteOutcomes :
        /\ entry' = "playSamples"
        /\ path' = TmpPath
        /\ events' = Append(events, <<"write", "tmp", o>>)
        /\ tmpFile' = IF o = "ok" THEN "present"
                      ELSE IF o = "writeFailed" THEN "partial" ELSE "absent"
        /\ IF o = "ok"
           THEN /\ deferred' = TRUE
                /\ StartChain(WavePlayers, "playWAV")
                /\ UNCHANGED result
           ELSE /\ deferred' = FALSE
                /\ result' = IOError(o)
                /\ pc' = "returned"
                /\ UNCHANGED <<caller, candidates, i, available, lastErr>>
    /\ UNCHANGED <<goos, host, chainErr, removeFailed>>
    /\ UNCHANGED <<synthVars, wavVars>>

\* One iteration of runFirstAvailable's loop that keeps going after a
\* successful run instead of returning nil.
TryCandidateNoReturn ==
    /\ pc = "chain"
    /\ i <= Len(candidates)
    /\ LET c == candidates[i] IN
        IF ~commandExists(c)
        THEN /\ events' = Append(events, <<"lookup", c, "missing">>)
             /\ i' = i + 1
             /\ UNCHANGED <<available, lastErr, chainErr, pc>>
        ELSE /\ available' = Append(available, c)
             /\ events' = events \o <<<<"lookup", c, "found">>,
                              <<"run", c, IF RunProgram(c) = Nil THEN "ok" ELSE "fail">>>>
             /\ lastErr' = RunProgram(c)
             /\ i' = i + 1
             /\ UNCHANGED <<chainErr, pc>>
    /\ UNCHANGED <<goos, host, entry, path, caller, candidates, result,
                   tmpFile, deferred, removeFailed>>
    /\ UNCHANGED <<synthVars, wavVars>>

\* One iteration of runFirstAvailable's loop: look the program up, skip it
\* when absent, otherwise run it and return nil on success.
TryCandidate ==
    /\ pc = "chain"
    /\ i <= Len(candidates)
    /\ LET c == candidates[i] IN
        IF ~commandExists(c)
        THEN /\ events' = Append(events, <<"lookup", c, "missing">>)
             /\ i' = i + 1
             /\ UNCHANGED <<available, lastErr, chainErr, pc>>
        ELSE /\ available' = Append(available, c)
             /\ events' = events \o <<<<"lookup", c, "found">>,
                              <<"run", c, IF RunProgram(c) = Nil THEN "ok" ELSE "fail">>>>
             /\ IF RunProgram(c) = Nil
                THEN /\ chainErr' = Nil
                     /\ pc' = "chainReturned"
                     /\ UNCHANGED <<lastErr, i>>
                ELSE /\ lastErr' = NextLastErr(lastErr, RunProgram(c))
                     /\ i' = i + 1
                     /\ UNCHANGED <<chainErr, pc>>
    /\ UNCHANGED <<goos, host, entry, path, caller, candidates, result,
                   tmpFile, deferred, removeFailed>>
    /\ UNCHANGED <<synthVars, wavVars>>

\* runFirstAvailable after its loop: no candidate existed, or all failed.
ChainExhausted ==
    /\ pc = "chain"
    /\ i > Len(candidates)
    /\ chainErr' = IF Len(available) = 0
                   THEN NotFoundError(candidates, available)
                   ELSE PlaybackFailedError(available, lastErr)
    /\ pc' = "chainReturned"
    /\ UNCHANGED <<goos, host, entry, path, caller, candidates, i, available,
                   lastErr, result, events, tmpFile, deferred, removeFailed>>
    /\ UNCHANGED <<synthVars, wavVars>>

\* playWAV after runFirstAvailable returned: nil is returned as is; on
\* Windows a failure runs the PowerShell SoundPlayer and returns its result.
playWAV ==
    /\ pc = "chainReturned"
    /\ caller = "playWAV"
    /\ IF UseFallback(chainErr, goos)
       THEN \E ok \in BOOLEAN :
            /\ events' = Append(events,
                   <<"fallback", "powershell", IF ok THEN "ok" ELSE "fail">>)
            /\ Return(IF ok THEN Nil ELSE ExitError("powershell"))
       ELSE /\ Return(chainErr)
            /\ UNCHANGED events
    /\ UNCHANGED <<goos, host, entry, path, caller, candidates, i, available,
                   lastErr, chainErr, tmpFile, deferred, removeFailed>>
    /\ UNCHANGED <<synthVars, wavVars>>

\* playMP3 returns what runFirstAvailable returned.
playMP3 ==
    /\ pc = "chainReturned"
    /\ caller = "playMP3"
    /\ Return(chainErr)
    /\ UNCHANGED <<goos, host, entry, path, caller, candidates, i, available,
                   lastErr, chainErr, events, tmpFile, deferred, removeFailed>>
    /\ UNCHANGED <<synthVars, wavVars>>

\* playSamples' deferred func: _ = os.Remove(path).
DeferredRemove ==
    /\ pc = "deferred"
    /\ \E ok \in BOOLEAN :
        /\ events' = Append(events, <<"remove", "tmp", IF ok THEN "ok" ELSE "fail">>)
        /\ tmpFile' = IF ok THEN "absent" ELSE tmpFile
        /\ removeFailed' = ~ok
    /\ pc' = "returned"
    /\ UNCHANGED <<goos, host, entry, path, caller, candidates, i, available,
                   lastErr, chainErr, result, deferred>>
    /\ UNCHANGED <<synthVars, wavVars>>

SynthOff ==
    /\ synthPc = "off" /\ notes = <<>> /\ frameCount = 0 /\ iters = <<>>
    /\ guardFired = FALSE /\ buf = <<>> /\ mixPeak = 0 /\ out = <<>>
    /\ synthErr = Nil

WavOff == wavPc = "off" /\ samples = <<>> /\ wavBytes = <<>> /\ wavErr = Nil

DispOff ==
    /\ pc = "off" /\ goos = "linux" /\ host = [p \in Programs |-> "absent"]
    /\ entry = "none" /\ path = <<>> /\ caller = "none" /\ candidates = <<>>
    /\ i = 0 /\ available = <<>> /\ lastErr = Nil /\ chainErr = Nil
    /\ result = Nil /\ events = <<>> /\ tmpFile = "absent"
    /\ deferred = FALSE /\ removeFailed = FALSE

Init ==
    /\ pc = "idle"
    /\ goos \in GOOSValues
    /\ host \in [Programs -> {"absent", "fails", "ok"}]
    /\ entry = "none" /\ path = <<>> /\ caller = "none" /\ candidates = <<>>
    /\ i = 0 /\ available = <<>> /\ lastErr = Nil /\ chainErr = Nil
    /\ result = Nil /\ events = <<>> /\ tmpFile = "absent"
    /\ deferred = FALSE /\ removeFailed = FALSE
    /\ SynthOff
    /\ WavOff

Next ==
    \/ playAudioFile
    \/ playSamples
    \/ TryCandidate
    \/ ChainExhausted
    \/ playWAV
    \/ playMP3
    \/ DeferredRemove

Spec == Init /\ [][Next]_vars

(***************************************************************************)
(* The renderer: waveSample, envelope, synthesize.                         *)
(*                                                                         *)
(* Times are in milliseconds and amplitudes in hundredths, so that sample  *)
(* counts and indices (the int(...) conversions) are computed exactly: on  *)
(* the modelled inputs Go's float64 products truncate to the same          *)
(* integers.  Signal values are fixed-point numbers with One standing for  *)
(* 1.0; math.Sin and math.Exp are computed by rational approximations      *)
(* that keep their ranges ([-1, 1] and (0, 1]).                            *)
(***************************************************************************)
sampleRate == 44100

\* 0.05 s of trailing pad.
padMs == 50

\* const attackS = 0.003
attackMs == 3

\* The decay exponent 6.9, in tenths.
decayTenths == 69

\* The normalisation threshold and target 0.95, in hundredths.
headroomPct == 95

\* The int16 full scale, 32767.0.
fullScale == 32767

\* The fixed-point representation of 1.0.
One == 10000

MaxNotes == 2

Abs(x) == IF x < 0 THEN -x ELSE x

\* Division truncating toward zero, as Go's int(...) conversion truncates.
TruncDiv(a, b) == IF a >= 0 THEN a \div b ELSE -((-a) \div b)

\* Fixed-point product.
FMul(a, b) == TruncDiv(a * b, One)

\* math.Sin of `num / (2 * sampleRate)` turns: Bhaskara's approximation
\* 16u(1-u) / (5 - 4u(1-u)) of sin(pi u) on each half turn.
Sin(num) ==
    LET r == num % (2 * sampleRate)
        h == IF r < sampleRate THEN r ELSE r - sampleRate
        u == (h * One) \div sampleRate
        p == u * (One - u)
        v == (16 * p) \div ((5 * One * One - 4 * p) \div One)
    IN IF r < sampleRate THEN v ELSE -v

\* waveSample(kind, phase) at phase = 2 pi freqHz j / sampleRate; the
\* argument of Sin counts half-steps, so that 0.5*phase and 1.5*phase are
\* whole numbers of them.
waveSample(kind, freqHz, j) ==
    LET ph == freqHz * j IN
    IF kind = "square" THEN (IF Sin(2 * ph) >= 0 THEN One ELSE -One)
    ELSE IF kind = "glass"
    THEN TruncDiv(70 * Sin(2 * ph) + 22 * Sin(4 * ph) + 8 * Sin(6 * ph), 100)
    ELSE IF kind = "round"
    THEN TruncDiv(84 * Sin(2 * ph) + 10 * Sin(ph) + 6 * Sin(3 * ph), 100)
    ELSE Sin(2 * ph)

\* math.Exp(-y) for fixed-point y >= 0: the cubic Taylor polynomial of
\* exp(-y/16), squared four times.
ExpNeg(y) ==
    IF y >= 16 * One THEN 0
    ELSE LET z  == y \div 16
             z2 == FMul(z, z)
             z3 == FMul(z2, z)
             e1 == One - z + z2 \div 2 - z3 \div 6
             e2 == FMul(e1, e1)
             e4 == FMul(e2, e2)
             e8 == FMul(e4, e4)
         IN FMul(e8, e8)

\* envelope(t, durS) at t = j / sampleRate.
envelope(j, durMs) ==
    IF j < 0 \/ j * 1000 > durMs * sampleRate THEN 0
    ELSE IF j * 1000 < attackMs * sampleRate
    THEN (j * 1000 * One) \div (attackMs * sampleRate)
    ELSE LET remainUs == IF (durMs - attackMs) * 1000 > 1
                         THEN (durMs - attackMs) * 1000 ELSE 1
             den == IF (sampleRate * remainUs) \div 10000 > 1
                    THEN (sampleRate * remainUs) \div 10000 ELSE 1
             x == (((j * 1000 - attackMs * sampleRate) \div 10) * One) \div den
         IN ExpNeg((decayTenths * x) \div 10)

\* The notes synthesize is called with.
NoteChoices ==
    { [freqHz |-> 440,  startMs |-> 0,  durMs |-> 3, ampPct |-> 100, wave |-> "square"],
      [freqHz |-> 659,  startMs |-> 0,  durMs |-> 4, ampPct |-> 32,  wave |-> "sine"],
      [freqHz |-> 1175, startMs |-> 0,  durMs |-> 4, ampPct |-> 60,  wave |-> "glass"],
      [freqHz |-> 294,  startMs |-> 1,  durMs |-> 3, ampPct |-> 27,  wave |-> "round"],
      [freqHz |-> 1200, startMs |-> 1,  durMs |-> 2, ampPct |-> 5,   wave |-> "square"],
      [freqHz |-> 880,  startMs |-> 57, durMs |-> 3, ampPct |-> 10,  wave |-> "triangle"],
      [freqHz |-> 1600, startMs |-> 57, durMs |-> 4, ampPct |-> 100, wave |-> "square"],
      [freqHz |-> 440,  startMs |-> 0,  durMs |-> 10, ampPct |-> 100, wave |-> "sine"],
      [freqHz |-> 1600, startMs |-> 0,  durMs |-> 20, ampPct |-> 6,  wave |-> "square"],
      [freqHz |-> 1200, startMs |-> 8,  durMs |-> 16, ampPct |-> 5,  wave |-> "square"] }

NoteLists == UNION {[1..n -> NoteChoices] : n \in 0..MaxNotes}

\* endS after the first k notes: the running maximum of startS + durS.
RECURSIVE EndMs(_, _)
EndMs(ns, k) ==
    IF k = 0 THEN 0
    ELSE LET e == ns[k].startMs + ns[k].durMs
             prev == EndMs(ns, k - 1)
         IN IF e > prev THEN e ELSE prev

\* endS taken from the last note instead of the latest-ending one.
FrameCountLastNote(ns) ==
    TruncDiv((ns[Len(ns)].startMs + ns[Len(ns)].durMs + padMs) * sampleRate, 1000)

\* frameCount := int(endS * sampleRate), rounded up instead of truncated.
FrameCountCeil(ns) ==
    -(((-(EndMs(ns, Len(ns)) + padMs)) * sampleRate) \div 1000)

\* frameCount := int(endS * sampleRate) after endS += 0.05.
FrameCount(ns) == TruncDiv((EndMs(ns, Len(ns)) + padMs) * sampleRate, 1000)

\* startI := int(n.startS * sampleRate)
StartI(n) == TruncDiv(n.startMs * sampleRate, 1000)

\* nFrames := int(n.durS * sampleRate)
NFrames(n) == TruncDiv(n.durMs * sampleRate, 1000)

\* The offsets j of a note's loop at which `idx < 0 || idx >= frameCount`.
OutOfRange(n, fc) ==
    {j \in 0..(NFrames(n) - 1) : StartI(n) + j < 0 \/ StartI(n) + j >= fc}

\* The number of iterations of a note's loop before it ends or breaks.
Iterations(n, fc) ==
    IF OutOfRange(n, fc) = {} THEN NFrames(n)
    ELSE CHOOSE j \in OutOfRange(n, fc) : \A k \in OutOfRange(n, fc) : j <= k

\* n.amp * waveSample(n.wave, omega*t) * envelope(t, n.durS) at offset j.
NoteSample(n, j) ==
    TruncDiv(n.ampPct * FMul(waveSample(n.wave, n.freqHz, j), envelope(j, n.durMs)), 100)

\* buf[idx] after the mixing loops: the sum of what each note added there.
RECURSIVE MixAt(_, _, _, _)
MixAt(ns, its, idx, k) ==
    IF k = 0 THEN 0
    ELSE MixAt(ns, its, idx, k - 1)
         + (IF idx >= StartI(ns[k]) /\ idx - StartI(ns[k]) < its[k]
            THEN NoteSample(ns[k], idx - StartI(ns[k]))
            ELSE 0)

\* The mixed buffer; element k is buf[k - 1].
Mix(ns, its, fc) == [k \in 1..fc |-> MixAt(ns, its, k - 1, Len(ns))]

\* peak: the largest math.Abs(v) over buf, 0 for an empty or silent one.
Peak(b) ==
    LET mags == {Abs(b[k]) : k \in 1..Len(b)} \cup {0} IN
    CHOOSE m \in mags : \A x \in mags : m >= x

\* No normalisation at all.
ScaleNone(peak) == One

\* scale := 1.0; if peak > 0.95 { scale = 0.95 / peak }
Scale(peak) ==
    IF peak * 100 > headroomPct * One
    THEN (((headroomPct * One) \div 100) * One) \div peak
    ELSE One

\* out[i] = int16(s * 32767.0) with s = v * scale clamped to [-1, 1].
Quantize(v, scale) ==
    LET s == FMul(v, scale)
        c == IF s > One THEN One ELSE IF s < -One THEN -One ELSE s
    IN TruncDiv(c * fullScale, One)

\* errors.New("no notes supplied")
NoNotesError == [kind |-> "EmptyInput", msg |-> <<"no notes supplied">>, cause |-> <<>>]

synthesize ==
    /\ synthPc = "input"
    /\ synthPc' = "done"
    /\ IF Len(notes) = 0
       THEN /\ synthErr' = NoNotesError
            /\ UNCHANGED <<frameCount, iters, guardFired, buf, mixPeak, out>>
       ELSE /\ frameCount' = FrameCount(notes)
            /\ iters' = [k \in 1..Len(notes) |-> Iterations(notes[k], frameCount')]
            /\ guardFired' = (\E k \in 1..Len(notes) : iters'[k] < NFrames(notes[k]))
            /\ buf' = Mix(notes, iters', frameCount')
            /\ mixPeak' = Peak(buf')
            /\ out' = [k \in 1..frameCount' |-> Quantize(buf'[k], Scale(mixPeak'))]
            /\ synthErr' = Nil
    /\ UNCHANGED notes
    /\ UNCHANGED <<dispVars, wavVars>>

InitSynth ==
    /\ DispOff
    /\ WavOff
    /\ synthPc = "input"
    /\ notes \in NoteLists
    /\ frameCount = 0 /\ iters = <<>> /\ guardFired = FALSE /\ buf = <<>>
    /\ mixPeak = 0 /\ out = <<>> /\ synthErr = Nil

NextSynth == synthesize

SpecSynth == InitSynth /\ [][NextSynth]_vars

(***************************************************************************)
(* The encoder: writeWAV.  A byte stream is a sequence of numbers 0..255.  *)
(***************************************************************************)
channels == 1

bitsPerSample == 16

MaxSamples == 3

\* b.WriteString of the four chunk tags, as ASCII codes.
TagRIFF == <<82, 73, 70, 70>>

TagWAVE == <<87, 65, 86, 69>>

TagFmt == <<102, 109, 116, 32>>

TagData == <<100, 97, 116, 97>>

\* binary.Write(&b, binary.LittleEndian, uint32(v))
LE32(v) ==
    <<v % 256, (v \div 256) % 256, (v \div 65536) % 256, (v \div 16777216) % 256>>

\* binary.Write(&b, binary.LittleEndian, uint16(v))
LE16(v) == <<v % 256, (v \div 256) % 256>>

\* An int16 written high byte first.
SampleBytesBigEndian(smp) ==
    LET u == IF smp < 0 THEN smp + 65536 ELSE smp IN <<(u \div 256) % 256, u % 256>>

\* binary.Write(&b, binary.LittleEndian, s) for an int16 s: its two's
\* complement, low byte first.
SampleBytes(smp) == LE16(IF smp < 0 THEN smp + 65536 ELSE smp)

\* The loop over samples.
RECURSIVE DataBytes(_)
DataBytes(ss) ==
    IF Len(ss) = 0 THEN <<>> ELSE SampleBytes(ss[1]) \o DataBytes(Tail(ss))

\* The buffer writeWAV builds.
WavStream(ss) ==
    LET byteRate == sampleRate * channels * (bitsPerSample \div 8)
        blockAlign == channels * (bitsPerSample \div 8)
        dataSize == Len(ss) * 2
        riffChunkSize == 36 + dataSize
    IN TagRIFF \o LE32(riffChunkSize) \o TagWAVE
       \o TagFmt \o LE32(16) \o LE16(1) \o LE16(channels) \o LE32(sampleRate)
       \o LE32(byteRate) \o LE16(blockAlign) \o LE16(bitsPerSample)
       \o TagData \o LE32(dataSize) \o DataBytes(ss)

\* The sample values buffers are drawn from.
SampleChoices == {0, 16384, -1, -32768, 32767, 258}

SampleLists == UNION {[1..n -> SampleChoices] : n \in 0..MaxSamples}

\* writeWAV(path, samples): build the stream, then os.WriteFile.
writeWAV ==
    /\ wavPc = "input"
    /\ wavPc' = "done"
    /\ wavBytes' = WavStream(samples)
    /\ \E o \in WriteOutcomes :
        /\ tmpFile' = IF o = "ok" THEN "present"
                      ELSE IF o = "writeFailed" THEN "partial" ELSE "absent"
        /\ wavErr' = IF o = "ok" THEN Nil ELSE IOError(o)
    /\ UNCHANGED samples
    /\ UNCHANGED <<pc, goos, host, entry, path, caller, candidates, i, available,
                   lastErr, chainErr, result, events, deferred, removeFailed>>
    /\ UNCHANGED synthVars

InitWav ==
    /\ DispOff
    /\ SynthOff
    /\ wavPc = "input"
    /\ samples \in SampleLists
    /\ wavBytes = <<>>
    /\ wavErr = Nil

NextWav == writeWAV

SpecWav == InitWav /\ [][NextWav]_vars

(***************************************************************************)
(* Properties of the dispatcher (specification Spec).                      *)
(***************************************************************************)
\* The programs of the events of one kind, in the order they happened.
EventsOf(what) ==
    LET sel == SelectSeq(events, LAMBDA e : e[1] = what) IN
    IF Len(sel) = 0 THEN <<>> ELSE [k \in 1..Len(sel) |-> sel[k][2]]

LookedUp == EventsOf("lookup")

Invoked == EventsOf("run")

FallbackRuns == Len(EventsOf("fallback"))

\* runFirstAvailable has returned.
ChainFinished == caller # "none" /\ pc \in {"chainReturned", "deferred", "returned"}

\* The play call has returned to its caller.
PlayReturned == pc = "returned"

Min(S) == CHOOSE x \in S : \A y \in S : x <= y

Max(S) == CHOOSE x \in S : \A y \in S : x >= y

Installed(cands) == SelectSeq(cands, LAMBDA p : host[p] # "absent")

SomeSucceeds(cands) == \E k \in 1..Len(cands) : host[cands[k]] = "ok"

\* The candidates up to and including the first that exits successfully; all
\* of them when none does.
UpToFirstSuccess(cands) ==
    IF SomeSucceeds(cands)
    THEN SubSeq(cands, 1, Min({k \in 1..Len(cands) : host[cands[k]] = "ok"}))
    ELSE cands

\* The program names a message lists, in order.
NamesIn(msg) == SelectSeq(msg, LAMBDA t : t \in Programs)

\* C1: runFirstAvailable returns nil exactly when some existing candidate
\* exits successfully; it looks up exactly the candidates up to and including
\* the first such one, in list order, and runs exactly the existing ones among
\* them, each once and in list order; an absent program is never run.
C1_FirstSuccessEndsDispatch ==
    /\ \A k \in 1..Len(Invoked) : host[Invoked[k]] # "absent"
    /\ ChainFinished =>
        /\ (chainErr = Nil) <=> SomeSucceeds(candidates)
        /\ LookedUp = UpToFirstSuccess(candidates)
        /\ Invoked = Installed(UpToFirstSuccess(candidates))

\* An absent candidate was skipped, one failed, a later one succeeded, and
\* candidates after it were left alone.
C1_Witness ==
    /\ ChainFinished
    /\ chainErr = Nil
    /\ Len(Invoked) = 2
    /\ Len(LookedUp) = 3
    /\ Len(candidates) > 3

\* C2: when no candidate of the list exists on the host, runFirstAvailable
\* runs nothing and returns PlayerNotFound, whose message lists every
\* candidate in list order; PlayerNotFound is returned in no other case.
C2_NoPlayerFound ==
    ChainFinished =>
        /\ Installed(candidates) = <<>> =>
            /\ Invoked = <<>>
            /\ chainErr.kind = "PlayerNotFound"
            /\ NamesIn(chainErr.msg) = candidates
        /\ chainErr.kind = "PlayerNotFound" => Installed(candidates) = <<>>

C2_Witness ==
    /\ ChainFinished
    /\ chainErr.kind = "PlayerNotFound"
    /\ Len(LookedUp) = 5
    /\ \E p \in Programs : host[p] # "absent"

\* C3: when some candidate exists and every existing one fails,
\* runFirstAvailable returns PlaybackFailed, whose message lists exactly the
\* programs that were run, in list order, and which wraps the failure of the
\* last program run and no other.
C3_AllFailed ==
    (ChainFinished /\ Installed(candidates) # <<>> /\ ~SomeSucceeds(candidates)) =>
        /\ chainErr.kind = "PlaybackFailed"
        /\ NamesIn(chainErr.msg) = Installed(candidates)
        /\ NamesIn(chainErr.msg) = Invoked
        /\ chainErr.cause
             = <<ExitError(Installed(candidates)[Len(Installed(candidates))])>>

\* Two programs failed, an absent one was skipped.
C3_Witness ==
    /\ ChainFinished
    /\ chainErr.kind = "PlaybackFailed"
    /\ Len(Invoked) >= 2
    /\ Len(Invoked) < Len(candidates)
    /\ host[candidates[1]] = "absent"

\* The temporary file was created on disk by writeWAV (wholly or in part).
TmpCreated ==
    \E k \in 1..Len(events) :
        events[k][1] = "write" /\ events[k][3] \in {"ok", "writeFailed"}

\* C4: once playSamples has created the temporary file, the file is gone
\* whenever playSamples has returned, on every exit path (unless the delete
\* itself failed); the delete comes after every playback attempt, and a
\* failed delete leaves the result as playWAV returned it.
C4_TempFileRemovedOnEveryExit ==
    (PlayReturned /\ entry = "playSamples" /\ TmpCreated) =>
        /\ ~removeFailed => tmpFile = "absent"
        /\ \A k \in 1..Len(events) :
             events[k][1] = "remove" => k = Len(events)

\* The extension as filepath.Ext documents it: the suffix beginning at the
\* final dot in the final element of the path; empty if there is no dot.
DotsInLastElement(p, os) ==
    {k \in 1..Len(p) :
        p[k] = "." /\ \A m \in k..Len(p) : ~IsPathSeparator(p[m], os)}

DocExt(p, os) ==
    IF DotsInLastElement(p, os) = {} THEN <<>>
    ELSE SubSeq(p, Max(DotsInLastElement(p, os)), Len(p))

EqualFold(a, b) ==
    Len(a) = Len(b) /\ \A k \in 1..Len(a) : LowerChar(a[k]) = LowerChar(b[k])

IsWavPath(p, os) == \E e \in WavExts : EqualFold(DocExt(p, os), e)

IsMp3Path(p, os) == \E e \in Mp3Exts : EqualFold(DocExt(p, os), e)

\* C5: playAudioFile on a path whose extension, compared without regard to
\* case, is none of .wav .wave .mp3 .mpeg returns UnsupportedFormat at once,
\* with no lookup, no run and no fallback; a .wav/.wave path goes only to the
\* wave-like candidates and a .mp3/.mpeg path only to the compressed ones.
C5_UnsupportedFormat ==
    entry = "playAudioFile" =>
        /\ (~IsWavPath(path, goos) /\ ~IsMp3Path(path, goos)) =>
            /\ PlayReturned
            /\ result.kind = "UnsupportedFormat"
            /\ events = <<>>
            /\ caller = "none"
        /\ IsWavPath(path, goos) =>
            /\ caller = "playWAV"
            /\ candidates = WavePlayers
            /\ Range(LookedUp) \cup Range(Invoked) \subseteq Range(WavePlayers)
        /\ IsMp3Path(path, goos) =>
            /\ caller = "playMP3"
            /\ candidates = Mp3Players
            /\ Range(LookedUp) \cup Range(Invoked) \subseteq Range(Mp3Players)
            /\ FallbackRuns = 0

\* An upper-case extension was dispatched and played.
C5_Witness ==
    /\ entry = "playAudioFile"
    /\ path = <<"a", ".", "W", "A", "V">>
    /\ PlayReturned
    /\ result = Nil
    /\ Len(Invoked) = 2

\* The fallback's result, read from the log.
FallbackResult ==
    LET sel == SelectSeq(events, LAMBDA e : e[1] = "fallback") IN
    IF sel[1][3] = "ok" THEN Nil ELSE ExitError("powershell")

\* C6: the platform-native fallback runs at most once per play call, and only
\* for the wave-like family after the chain failed on Windows; then its
\* outcome is the result of play.  Otherwise it does not run and play returns
\* what the chain returned: on another host, when the chain succeeded, and
\* always for the compressed family.
C6_WindowsFallback ==
    /\ FallbackRuns <= 1
    /\ FallbackRuns = 1 =>
        /\ caller = "playWAV"
        /\ chainErr.kind \in {"PlayerNotFound", "PlaybackFailed"}
        /\ goos = "windows"
        /\ pc \in {"deferred", "returned"}
    /\ (caller # "none" /\ pc \in {"deferred", "returned"}) =>
        IF caller = "playWAV" /\ chainErr # Nil /\ goos = "windows"
        THEN FallbackRuns = 1 /\ result = FallbackResult
        ELSE FallbackRuns = 0 /\ result = chainErr

\* Every player failed on Windows and the fallback then succeeded.
C6_Witness ==
    /\ PlayReturned
    /\ FallbackRuns = 1
    /\ chainErr.kind = "PlaybackFailed"
    /\ result = Nil

(***************************************************************************)
(* Properties of the renderer (specification SpecSynth).                   *)
(***************************************************************************)
Rendered == synthPc = "done" /\ Len(notes) > 0

\* max over the notes of start + duration, in milliseconds.
MaxEndMs == Max({notes[k].startMs + notes[k].durMs : k \in 1..Len(notes)})

\* (max end + 0.05) * 44100, times 1000.
LengthTimes1000 == (MaxEndMs + padMs) * sampleRate

PeakLimit == (headroomPct * fullScale + 50) \div 100

\* C8: every sample of the quantized buffer has magnitude at most
\* round(0.95 * 32767) = 31129, however many notes overlap and whatever
\* their amplitudes; a mix whose raw peak is at most 0.95 is quantized
\* unscaled, a louder one is attenuated.
C8_PeakBounded ==
    Rendered =>
        /\ \A k \in 1..Len(out) : Abs(out[k]) <= PeakLimit
        /\ mixPeak * 100 <= headroomPct * One =>
             \A k \in 1..Len(out) : out[k] = TruncDiv(buf[k] * fullScale, One)
        /\ mixPeak * 100 > headroomPct * One =>
             \E k \in 1..Len(out) : Abs(out[k]) * One < Abs(buf[k]) * fullScale - One

\* Two overlapping loud notes whose raw mix exceeds 1.0 were scaled down to
\* the limit.
C8_Witness ==
    /\ Rendered
    /\ Len(notes) = 2
    /\ mixPeak > One
    /\ \E k \in 1..Len(out) : Abs(out[k]) >= PeakLimit - 10 /\ Abs(out[k]) <= PeakLimit

\* C10: with start >= 0 and duration > 0 the guard of the mixing loop never
\* fires: every index a note writes lies in [0, frameCount), every loop runs
\* all its nFrames iterations.
C10_GuardNeverFires ==
    Rendered =>
        /\ ~guardFired
        /\ \A k \in 1..Len(notes) :
            /\ iters[k] = NFrames(notes[k])
            /\ StartI(notes[k]) >= 0
            /\ StartI(notes[k]) + NFrames(notes[k]) - 1 < frameCount

\* The latest-ending note comes first and a far earlier one last.
C10_Witness ==
    /\ Rendered
    /\ Len(notes) = 2
    /\ notes[1].startMs = 57
    /\ notes[2].startMs = 0
    /\ iters[1] = 176
    /\ ~guardFired

(***************************************************************************)
(* Properties of the encoder (specification SpecWav).                      *)
(***************************************************************************)
\* Readers of the stream: the unsigned little-endian number of 2 or 4 bytes
\* and the signed 16-bit number at a byte offset (from 0).
U16At(b, off) == b[off + 1] + 256 * b[off + 2]

U32At(b, off) ==
    b[off + 1] + 256 * b[off + 2] + 65536 * b[off + 3] + 16777216 * b[off + 4]

S16At(b, off) ==
    IF U16At(b, off) >= 32768 THEN U16At(b, off) - 65536 ELSE U16At(b, off)

\* C9: for a buffer of n samples writeWAV builds 44 + 2n bytes: "RIFF", the
\* size 36 + 2n, "WAVE", the fixed format block (size 16, PCM tag 1, 1
\* channel, rate 44100, byte rate 88200, block align 2, 16 bits), "data", the
\* size 2n, and the n samples in their order; for [0, 16384] that is 48
\* bytes with RIFF size 40 and data size 4.
C9_WavLayout ==
    wavPc = "done" =>
        LET n == Len(samples) IN
        /\ Len(wavBytes) = 44 + 2 * n
        /\ SubSeq(wavBytes, 1, 4) = <<82, 73, 70, 70>>
        /\ U32At(wavBytes, 4) = 36 + 2 * n
        /\ SubSeq(wavBytes, 9, 16) = <<87, 65, 86, 69, 102, 109, 116, 32>>
        /\ U32At(wavBytes, 16) = 16
        /\ U16At(wavBytes, 20) = 1
        /\ U16At(wavBytes, 22) = 1
        /\ U32At(wavBytes, 24) = 44100
        /\ U32At(wavBytes, 28) = 88200
        /\ U16At(wavBytes, 32) = 2
        /\ U16At(wavBytes, 34) = 16
        /\ SubSeq(wavBytes, 37, 40) = <<100, 97, 116, 97>>
        /\ U32At(wavBytes, 40) = 2 * n
        /\ \A k \in 1..n : S16At(wavBytes, 44 + 2 * (k - 1)) = samples[k]
        /\ \A k \in 1..Len(wavBytes) : wavBytes[k] \in 0..255
        /\ samples = <<0, 16384>> =>
            /\ Len(wavBytes) = 48
            /\ U32At(wavBytes, 4) = 40
            /\ U32At(wavBytes, 40) = 4

\* The two samples [0, 16384] were encoded.
C9_Witness ==
    /\ wavPc = "done"
    /\ samples = <<0, 16384>>
    /\ SubSeq(wavBytes, 45, 48) = <<0, 0, 0, 64>>

====
